---- MODULE Spec2Model ----
(***************************************************************************)
(* Kinetic KTD2026/7 RGB/White LED driver (drivers/leds/rgb/leds-ktd202x.c) *)
(* as a state machine: the chip's registers, its power state and supply,    *)
(* the LED class devices' brightness fields, the chip mutex, and one        *)
(* program counter per calling context.  Every bus write, supply call and   *)
(* mutex operation of a request is a step of its own, so that requests      *)
(* issued from concurrent contexts interleave exactly where the code lets   *)
(* them.                                                                    *)
(***************************************************************************)
EXTENDS Integers, Sequences, FiniteSets, TLC

(***************************************************************************)
(* Bounds of the model.                                                     *)
(***************************************************************************)
\* Calling contexts that issue requests concurrently.
NumProcs == 2
\* Requests issued in one behaviour, all contexts together.
MaxReqs == 2
\* Requests issued in one behaviour when they are issued one after the other.
MaxSeqReqs == 4
\* Bus or supply operations that fail in one behaviour.
MaxFaults == 1

Procs == 1..NumProcs

(***************************************************************************)
(* Register map and encodings (lines 13-49).                                *)
(***************************************************************************)
KTD202X_MAX_LEDS == 4
KTD202X_REG_RESET_CONTROL == 0
KTD202X_REG_FLASH_PERIOD == 1
KTD202X_REG_PWM1_TIMER == 2
KTD202X_REG_PWM2_TIMER == 3
KTD202X_REG_CHANNEL_CTRL == 4
KTD202X_REG_TRISE_FALL == 5
KTD202X_REG_LED_IOUT(x) == 6 + x
KTD202X_RSTR_RESET == 7
KTD202X_ENABLE_CTRL_WAKE == 0
KTD202X_ENABLE_CTRL_SLEEP == 8
KTD202X_TIME_MIN == 256
KTD202X_TIME_STEP == 128
KTD202X_ON_MAX == 256
\* cdev->max_brightness (line 449).
MaxBrightness == 192
\* enum led_brightness of include/linux/leds.h: LED_OFF = 0, LED_FULL = 255.
LED_OFF == 0
LED_FULL == 255

Pow2(k) == 2 ^ k
BIT(k) == Pow2(k)
Bit(x, k) == (x \div Pow2(k)) % 2

RECURSIVE AndFrom(_, _, _)
AndFrom(a, b, k) ==
  IF k > 7 THEN 0 ELSE Bit(a, k) * Bit(b, k) * Pow2(k) + AndFrom(a, b, k + 1)
\* a & b, a | b and ~a on the 8-bit values of the register map.
\* The operands are taken to their values once, before the bits are.
BitAnd(a, b) ==
  CHOOSE r \in {AndFrom(x, y, 0) : x \in {a % 256}, y \in {b % 256}} : TRUE
BitOr(a, b) == (a % 256) + (b % 256) - BitAnd(a, b)
BitNot(a) == 255 - (a % 256)

KTD202X_CHANNEL_CTRL_MASK(x) == BitOr(BIT(2 * x), BIT(2 * x + 1))
KTD202X_CHANNEL_CTRL_OFF == 0
KTD202X_CHANNEL_CTRL_ON(x) == BIT(2 * x)
KTD202X_CHANNEL_CTRL_PWM1(x) == BIT(2 * x + 1)
KTD202X_CHANNEL_CTRL_PWM2(x) == BitOr(BIT(2 * x), BIT(2 * x + 1))

Regs == 0..9
ktd202x_reg_defaults ==
  [r \in Regs |->
     IF r \in {KTD202X_REG_PWM1_TIMER, KTD202X_REG_PWM2_TIMER} THEN 1
     ELSE IF r >= KTD202X_REG_LED_IOUT(0) THEN 79
     ELSE 0]

(***************************************************************************)
(* The configuration the chip was constructed with: a KTD2026 (3 outputs)   *)
(* whose first child node is an RGB multicolor unit over outputs 0 and 1    *)
(* and whose second child node is a standalone LED on output 2.  leds[2] is *)
(* never registered and keeps its zeroed fields.                            *)
(***************************************************************************)
num_leds == 3
LedSlots == 0..(num_leds - 1)
Registered == {0, 1}
IsMc(l) == l = 0
\* mc->subled_info[j].channel for the multicolor unit; led->index otherwise.
Channels(l) == IF IsMc(l) THEN <<0, 1>> ELSE <<2>>
num_colors(l) == Len(Channels(l))
McSubs == 1..num_colors(0)

(***************************************************************************)
(* Inputs of the requests.                                                  *)
(***************************************************************************)
BrightnessValues == {0, 1, MaxBrightness}
IntensityValues == {0, MaxBrightness}
Delays == {0, 500}

VARIABLES
  regs,        \* the device registers, as the register map holds them
  enabled,     \* chip->enabled
  supply,      \* enables the driver holds on vin_regulator
  brightness,  \* leds[i].cdev.brightness (= mcdev.led_cdev.brightness)
  intensity,   \* mcdev.subled_info[j].intensity
  subled,      \* mcdev.subled_info[j].brightness
  mutex,       \* chip->mutex: 0 when free, else the context holding it
  pc,          \* where each calling context is in its request
  req,         \* each context's request: arguments, locals, return value
  seg,         \* bus recorder: how each request's writes lie among the others'
  fail,        \* bus recorder: the first operation of the request that failed
  faultsLeft,  \* failures the bus and the supply may still answer with
  nreq,        \* requests issued so far
  qz,          \* the blink quantizer applied on its own (SpecQ)
  ops,         \* bus recorder: the bus and supply operations each request called
  last,        \* the request that returned last, if a set_brightness without failure
  probe        \* ktd202x_probe: its configuration, position and result

vars == <<regs, enabled, supply, brightness, intensity, subled, mutex, pc,
          req, seg, fail, faultsLeft, nreq, qz, ops, last, probe>>

\* op: the request; led: the LED class device; value: the brightness handed to
\* brightness_*_set; don, doff: *delay_on, *delay_off; i: the loop index of
\* ktd202x_brightness_set; ra: who called brightness_*_set; steps, on: the
\* locals num_steps and on of ktd202x_blink_set; ret: the request's result.
NoReq == [op |-> "none", led |-> 0, value |-> 0, don |-> 0, doff |-> 0,
          i |-> 0, ra |-> "req", steps |-> 0, on |-> 0, ret |-> 0]
QzIdle == [st |-> "idle", bits |-> 64, on |-> 0, off |-> 0, steps |-> 0,
           duty |-> 0, reg |-> 0, don |-> 0, doff |-> 0]

\* last while no request has returned; track says whether request_return
\* records the brightness requests that return without a failure.
NoLast == [track |-> FALSE, op |-> "none", led |-> 0, value |-> 0, ok |-> FALSE,
           intensity |-> <<0, 0>>, regs |-> ktd202x_reg_defaults,
           enabled |-> FALSE, supply |-> 0]

\* The child nodes of the configuration above, as ktd202x_probe_dt reads them.
DriverConfig == <<[rgb |-> TRUE, regs |-> <<0, 1>>], [rgb |-> FALSE, regs |-> <<2>>]>>

\* The state ktd202x_probe leaves: the reset command written (line 485), the
\* supply released (line 551), every LED off.
DriverInit ==
  /\ regs = [ktd202x_reg_defaults EXCEPT
               ![KTD202X_REG_RESET_CONTROL] = KTD202X_RSTR_RESET]
  /\ enabled = FALSE
  /\ supply = 0
  /\ brightness = [l \in LedSlots |-> 0]
  /\ intensity = [j \in McSubs |-> 0]
  /\ subled = [j \in McSubs |-> 0]
  /\ mutex = 0
  /\ pc = [p \in Procs |-> "idle"]
  /\ req = [p \in Procs |-> NoReq]
  /\ seg = [p \in Procs |-> "none"]
  /\ fail = [p \in Procs |-> "none"]
  /\ ops = [p \in Procs |-> {}]
  /\ nreq = 0
  /\ probe = [st |-> "ok", cfg |-> DriverConfig, i |-> Len(DriverConfig),
              ret |-> 0]

Init == DriverInit /\ faultsLeft = MaxFaults /\ qz = QzIdle /\ last = NoLast

(***************************************************************************)
(* The register bus (regmap, 8-bit values, flat cache) and the vin supply.  *)
(* An operation that fails changes nothing.  Outcomes is what a fallible    *)
(* operation may answer: failure only while faultsLeft lasts.               *)
(***************************************************************************)
Outcomes == IF faultsLeft > 0 THEN {TRUE, FALSE} ELSE {TRUE}

\* regmap_write(map, r, v): the register after the call.
regmap_write(r, v, ok) == IF ok THEN [regs EXCEPT ![r] = v % 256] ELSE regs

\* regmap_update_bits(map, r, mask, val): the value it computes for r.
UpdatedBits(orig, mask, val) ==
  BitOr(BitAnd(orig, BitNot(mask)), BitAnd(val, mask))
\* It goes to the bus, and can fail, only when that value differs.
UpdateWrites(r, mask, val) == UpdatedBits(regs[r], mask, val) # regs[r]
regmap_update_bits(r, mask, val, ok) ==
  IF ok THEN [regs EXCEPT ![r] = UpdatedBits(regs[r], mask, val)] ELSE regs

\* The 2-bit control field of channel x in a control word.
CtrlField(word, x) == BitAnd(word, KTD202X_CHANNEL_CTRL_MASK(x))

(***************************************************************************)
(* The bus recorder.  A request's segment is "open" from its first bus      *)
(* write or supply call, "broken" once another request wrote after that,    *)
(* and "interleaved" when the request then writes again.  ops[p] is the set *)
(* of operations the request has called on the bus and the supply, fail[p]  *)
(* the first of them that failed.                                           *)
(***************************************************************************)
Touched(p) ==
  [q \in Procs |->
     IF q = p
     THEN IF seg[p] \in {"broken", "interleaved"} THEN "interleaved" ELSE "open"
     ELSE IF seg[q] = "open" THEN "broken" ELSE seg[q]]

Faulted(p, ok, what) ==
  /\ faultsLeft' = IF ok THEN faultsLeft ELSE faultsLeft - 1
  /\ fail' = [fail EXCEPT ![p] = IF ~ok /\ @ = "none" THEN what ELSE @]
  /\ ops' = [ops EXCEPT ![p] = @ \cup {what}]

Goto(p, to) == pc' = [pc EXCEPT ![p] = to]

\* Requests come in through the LED class devices that ktd202x_probe
\* registered.  A context keeps nothing from one request to its next, so the
\* idle contexts are interchangeable: a new request takes the lowest idle one.
CanIssue(p) ==
  /\ probe.st = "ok"
  /\ pc[p] = "idle"
  /\ \A q \in Procs : q < p => pc[q] # "idle"

(***************************************************************************)
(* ktd202x_chip_in_use (lines 139-152): some LED class device of the chip   *)
(* has a non-zero brightness field.  cdev and mcdev.led_cdev share their    *)
(* storage, so both branches read the same field.                           *)
(***************************************************************************)
ktd202x_chip_in_use ==
  IF num_leds = 1
  THEN brightness[0] # 0
  ELSE \E i \in 0..(num_leds - 1) : brightness[i] # 0

(***************************************************************************)
(* The LED class framework, the caller of the driver's callbacks.  It       *)
(* stores the new brightness in the class device before it calls            *)
(* brightness_set_blocking, without the chip mutex.                         *)
(***************************************************************************)
led_set_brightness(p) ==
  /\ CanIssue(p)
  /\ \E l \in Registered, v \in BrightnessValues :
       /\ brightness' = [brightness EXCEPT ![l] = v]
       /\ req' = [req EXCEPT ![p] =
                    [NoReq EXCEPT !.op = "brightness", !.led = l, !.value = v]]
  /\ Goto(p, "bs_lock")
  /\ nreq' = nreq + 1
  /\ UNCHANGED <<regs, enabled, supply, intensity, subled, mutex, seg, fail,
                 faultsLeft, qz, ops, last, probe>>

\* multi_intensity_store: new intensities, then the current brightness again.
multi_intensity_store(p) ==
  /\ CanIssue(p)
  /\ \E l \in {m \in Registered : IsMc(m)} :
       /\ \E ints \in [McSubs -> IntensityValues] : intensity' = ints
       /\ req' = [req EXCEPT ![p] =
                    [NoReq EXCEPT !.op = "brightness", !.led = l,
                                  !.value = brightness[l]]]
  /\ Goto(p, "bs_lock")
  /\ nreq' = nreq + 1
  /\ UNCHANGED <<regs, enabled, supply, brightness, subled, mutex, seg, fail,
                 faultsLeft, qz, ops, last, probe>>

led_blink_set(p) ==
  /\ CanIssue(p)
  /\ \E l \in Registered, a \in Delays, b \in Delays :
       req' = [req EXCEPT ![p] =
                 [NoReq EXCEPT !.op = "blink", !.led = l, !.don = a, !.doff = b]]
  /\ Goto(p, "bl_entry")
  /\ nreq' = nreq + 1
  /\ UNCHANGED <<regs, enabled, supply, brightness, intensity, subled, mutex,
                 seg, fail, faultsLeft, qz, ops, last, probe>>

\* led_mc_calc_color_components(mc, value).
led_mc_calc_color_components(value) ==
  [j \in McSubs |-> (value * intensity[j]) \div MaxBrightness]

(***************************************************************************)
(* mutex_lock / mutex_unlock on chip->mutex.                                *)
(***************************************************************************)
mutex_lock(p) == mutex = 0 /\ mutex' = p
mutex_unlock(p) == mutex' = 0

(***************************************************************************)
(* ktd202x_chip_enable (lines 118-137) with ktd202x_chip_init (84-97), as   *)
(* called from ktd202x_brightness_set, and ktd202x_chip_disable (99-116).   *)
(***************************************************************************)
\* chip_enable_regulator with chip->enabled = true before the result of
\* regulator_enable is looked at.
chip_enable_regulator_flag_first(p) ==
  /\ pc[p] = "en_reg"
  /\ \E ok \in Outcomes :
       /\ Faulted(p, ok, "supply_enable")
       /\ enabled' = TRUE
       /\ supply' = IF ok THEN supply + 1 ELSE supply
       /\ Goto(p, IF ok THEN "en_init" ELSE "bs_unlock")
  /\ seg' = Touched(p)
  /\ UNCHANGED <<regs, brightness, intensity, subled, mutex, req, nreq, qz,
                 last, probe>>

\* regulator_enable, then chip->enabled = true (lines 125-130).
chip_enable_regulator(p) ==
  /\ pc[p] = "en_reg"
  /\ \E ok \in Outcomes :
       /\ Faulted(p, ok, "supply_enable")
       /\ enabled' = (enabled \/ ok)
       /\ supply' = IF ok THEN supply + 1 ELSE supply
       /\ Goto(p, IF ok THEN "en_init" ELSE "bs_unlock")
  /\ seg' = Touched(p)
  /\ UNCHANGED <<regs, brightness, intensity, subled, mutex, req, nreq, qz,
                 last, probe>>

\* ktd202x_chip_init without the ktd202x_chip_disable of line 134.
ktd202x_chip_init_no_rollback(p) ==
  /\ pc[p] = "en_init"
  /\ \E ok \in Outcomes :
       /\ Faulted(p, ok, "wake")
       /\ regs' = regmap_write(KTD202X_REG_RESET_CONTROL,
                               KTD202X_ENABLE_CTRL_WAKE, ok)
       /\ Goto(p, IF ok THEN "bs_iout" ELSE "bs_unlock")
  /\ seg' = Touched(p)
  /\ UNCHANGED <<enabled, supply, brightness, intensity, subled, mutex, req,
                 nreq, qz, last, probe>>

\* ktd202x_chip_init: the wake write; on failure ktd202x_chip_disable.
ktd202x_chip_init(p) ==
  /\ pc[p] = "en_init"
  /\ \E ok \in Outcomes :
       /\ Faulted(p, ok, "wake")
       /\ regs' = regmap_write(KTD202X_REG_RESET_CONTROL,
                               KTD202X_ENABLE_CTRL_WAKE, ok)
       /\ Goto(p, IF ok THEN "bs_iout"
                  ELSE IF enabled THEN "rb_sleep" ELSE "bs_unlock")
  /\ seg' = Touched(p)
  /\ UNCHANGED <<enabled, supply, brightness, intensity, subled, mutex, req,
                 nreq, qz, last, probe>>

\* The sleep write of ktd202x_chip_disable; its result is not looked at.
chip_disable_sleep(p, at, to) ==
  /\ pc[p] = at
  /\ \E ok \in Outcomes :
       /\ Faulted(p, ok, "sleep")
       /\ regs' = regmap_write(KTD202X_REG_RESET_CONTROL,
                               KTD202X_ENABLE_CTRL_SLEEP, ok)
  /\ Goto(p, to)
  /\ seg' = Touched(p)
  /\ UNCHANGED <<enabled, supply, brightness, intensity, subled, mutex, req,
                 nreq, qz, last, probe>>

\* chip_disable_regulator without the chip->enabled = false of line 115.
chip_disable_regulator_flag_kept(p, at, to) ==
  /\ pc[p] = at
  /\ \E ok \in Outcomes :
       /\ Faulted(p, ok, "supply_disable")
       /\ supply' = IF ok THEN supply - 1 ELSE supply
  /\ Goto(p, to)
  /\ seg' = Touched(p)
  /\ UNCHANGED <<regs, enabled, brightness, intensity, subled, mutex, req,
                 nreq, qz, last, probe>>

\* regulator_disable; chip->enabled = false only when it succeeded.
chip_disable_regulator(p, at, to) ==
  /\ pc[p] = at
  /\ \E ok \in Outcomes :
       /\ Faulted(p, ok, "supply_disable")
       /\ enabled' = (enabled /\ ~ok)
       /\ supply' = IF ok THEN supply - 1 ELSE supply
  /\ Goto(p, to)
  /\ seg' = Touched(p)
  /\ UNCHANGED <<regs, brightness, intensity, subled, mutex, req, nreq, qz,
                 last, probe>>

\* ktd202x_chip_disable rolling back a failed ktd202x_chip_enable (line 134).
chip_enable_rollback(p) ==
  \/ chip_disable_sleep(p, "rb_sleep", "rb_reg")
  \/ chip_disable_regulator(p, "rb_reg", "bs_unlock")

\* ktd202x_chip_disable at the end of ktd202x_brightness_set (line 193).
ktd202x_chip_disable(p) ==
  \/ chip_disable_sleep(p, "dis_sleep", "dis_reg")
  \/ chip_disable_regulator(p, "dis_reg", "bs_unlock")

(***************************************************************************)
(* ktd202x_brightness_single_set / ktd202x_brightness_mc_set (196-228) and  *)
(* ktd202x_brightness_set (154-194).                                        *)
(***************************************************************************)
\* brightness_set_enter without the mutex_lock of lines 203 and 220.
brightness_set_enter_nolock(p) ==
  /\ pc[p] = "bs_lock"
  /\ subled' = IF IsMc(req[p].led)
               THEN led_mc_calc_color_components(req[p].value)
               ELSE subled
  /\ req' = [req EXCEPT ![p].i = 1]
  /\ Goto(p, IF ktd202x_chip_in_use /\ ~enabled THEN "en_reg" ELSE "bs_iout")
  /\ UNCHANGED <<regs, enabled, supply, brightness, intensity, mutex, seg,
                 fail, faultsLeft, nreq, qz, ops, last, probe>>

\* mutex_lock, the components of a multicolor unit, and the test of line 162
\* with the early return of ktd202x_chip_enable.
brightness_set_enter(p) ==
  /\ pc[p] = "bs_lock"
  /\ mutex_lock(p)
  /\ subled' = IF IsMc(req[p].led)
               THEN led_mc_calc_color_components(req[p].value)
               ELSE subled
  /\ req' = [req EXCEPT ![p].i = 1]
  /\ Goto(p, IF ktd202x_chip_in_use /\ ~enabled THEN "en_reg" ELSE "bs_iout")
  /\ UNCHANGED <<regs, enabled, supply, brightness, intensity, seg, fail,
                 faultsLeft, nreq, qz, ops, last, probe>>

\* subleds[i].channel and subleds[i].brightness of the loop (lines 169-170).
SubChannel(p) == Channels(req[p].led)[req[p].i]
SubBrightness(p) ==
  IF IsMc(req[p].led) THEN subled[req[p].i] ELSE req[p].value

\* The IOUT value without the decrement.
IoutValue_raw(b) == b

\* brightness ? brightness-1 : 0 (line 173).
IoutValue(b) == IF b # 0 THEN b - 1 ELSE 0
\* The control bits of lines 177-187.
CtrlValue(b, idx) ==
  IF b # 0 THEN KTD202X_CHANNEL_CTRL_ON(idx) ELSE KTD202X_CHANNEL_CTRL_OFF

\* The IOUT write of one channel (lines 172-175).
brightness_set_iout(p) ==
  /\ pc[p] = "bs_iout"
  /\ \E ok \in Outcomes :
       /\ Faulted(p, ok, "iout")
       /\ regs' = regmap_write(KTD202X_REG_LED_IOUT(SubChannel(p)),
                               IoutValue(SubBrightness(p)), ok)
       /\ Goto(p, IF ok THEN "bs_ctrl" ELSE "bs_unlock")
  /\ seg' = Touched(p)
  /\ UNCHANGED <<enabled, supply, brightness, intensity, subled, mutex, req,
                 nreq, qz, last, probe>>

\* The control update of one channel (lines 177-189) and the loop's step.
brightness_set_ctrl(p) ==
  /\ pc[p] = "bs_ctrl"
  /\ LET idx == SubChannel(p)
         mask == KTD202X_CHANNEL_CTRL_MASK(idx)
         val == CtrlValue(SubBrightness(p), idx)
         writes == UpdateWrites(KTD202X_REG_CHANNEL_CTRL, mask, val)
     IN  \E ok \in (IF writes THEN Outcomes ELSE {TRUE}) :
           /\ Faulted(p, ok, "ctrl")
           /\ regs' = regmap_update_bits(KTD202X_REG_CHANNEL_CTRL, mask, val, ok)
           /\ seg' = IF writes THEN Touched(p) ELSE seg
           /\ IF ~ok
              THEN Goto(p, "bs_unlock") /\ req' = req
              ELSE IF req[p].i < num_colors(req[p].led)
              THEN Goto(p, "bs_iout") /\ req' = [req EXCEPT ![p].i = @ + 1]
              ELSE Goto(p, "bs_post") /\ req' = req
  /\ UNCHANGED <<enabled, supply, brightness, intensity, subled, mutex, nreq,
                 qz, last, probe>>

\* brightness_set_idle_check without the test of line 192.
brightness_set_idle_check_always(p) ==
  /\ pc[p] = "bs_post"
  /\ Goto(p, IF enabled THEN "dis_sleep" ELSE "bs_unlock")
  /\ UNCHANGED <<regs, enabled, supply, brightness, intensity, subled, mutex,
                 req, seg, fail, faultsLeft, nreq, qz, ops, last, probe>>

\* Lines 192-193, with the early return of ktd202x_chip_disable (103-104).
brightness_set_idle_check(p) ==
  /\ pc[p] = "bs_post"
  /\ Goto(p, IF ~ktd202x_chip_in_use /\ enabled THEN "dis_sleep"
             ELSE "bs_unlock")
  /\ UNCHANGED <<regs, enabled, supply, brightness, intensity, subled, mutex,
                 req, seg, fail, faultsLeft, nreq, qz, ops, last, probe>>

\* brightness_set_leave without the mutex_unlock of lines 209 and 225.
brightness_set_leave_locked(p) ==
  /\ pc[p] = "bs_unlock"
  /\ req' = [req EXCEPT ![p].ret = 0]
  /\ Goto(p, IF req[p].ra = "blink_full" THEN "bl_never_on" ELSE "done")
  /\ UNCHANGED <<regs, enabled, supply, brightness, intensity, subled, mutex,
                 seg, fail, faultsLeft, nreq, qz, ops, last, probe>>

\* mutex_unlock and return 0 (lines 209-211, 225-227), back to the caller:
\* the framework, or ktd202x_blink_*_set after line 292 or at line 300.
brightness_set_leave(p) ==
  /\ pc[p] = "bs_unlock"
  /\ mutex_unlock(p)
  /\ req' = [req EXCEPT ![p].ret = 0]
  /\ Goto(p, IF req[p].ra = "blink_full" THEN "bl_never_on" ELSE "done")
  /\ UNCHANGED <<regs, enabled, supply, brightness, intensity, subled, seg,
                 fail, faultsLeft, nreq, qz, ops, last, probe>>

(***************************************************************************)
(* The blink quantizer: lines 246-254 of ktd202x_blink_set.  delay_on and   *)
(* delay_off are unsigned long, num_steps and on are int.                   *)
(***************************************************************************)
\* unsigned long is 32 or 64 bits wide, as the kernel is built.
LongBits == {32, 64}

Min(a, b) == IF a <= b THEN a ELSE b

\* The step count with the quotient rounded to nearest.
StepsOf_rounded(total, bits) ==
  (2 * (total - KTD202X_TIME_MIN) + KTD202X_TIME_STEP)
     \div (2 * KTD202X_TIME_STEP) + 1

\* (*delay_on + *delay_off - KTD202X_TIME_MIN) / KTD202X_TIME_STEP + 1 in
\* unsigned long, converted to int.  Below KTD202X_TIME_MIN the difference
\* wraps to 2^bits - k.  2^bits is a multiple of the step, so the quotient is
\* 2^(bits-7) - ceil(k/128), which is 2^(bits-7) plus the floor quotient of the
\* negative difference.  The conversion to int keeps the low 32 bits: 2^57
\* vanishes there, 2^25 does not.
StepsOf(total, bits) ==
  LET d == total - KTD202X_TIME_MIN
      quot == d \div KTD202X_TIME_STEP
  IN  IF d >= 0 THEN quot + 1
      ELSE IF bits = 64 THEN quot + 1
      ELSE Pow2(25) + quot + 1

\* The quantized request: num_steps, on, and the delays written back.
ktd202x_blink_quantize(delay_on, delay_off, bits) ==
  LET num_steps == Min(126, StepsOf(delay_on + delay_off, bits))
      on == (delay_on * KTD202X_ON_MAX) \div (delay_on + delay_off)
      delay_total == num_steps * KTD202X_TIME_STEP + KTD202X_TIME_MIN
      new_on == (delay_total * on) \div KTD202X_ON_MAX
  IN  [num_steps |-> num_steps, on |-> on, delay_on |-> new_on,
       delay_off |-> delay_total - new_on]

\* If no blink specified, default to 1 Hz (lines 284-288, 332-336).
DefaultDelays(delay_on, delay_off) ==
  IF delay_on = 0 /\ delay_off = 0 THEN <<500, 500>> ELSE <<delay_on, delay_off>>

RECURSIVE OrSeq(_)
OrSeq(s) == IF s = <<>> THEN 0 ELSE BitOr(Head(s), OrSeq(Tail(s)))
\* ctrl_mask covering the whole control register.
ctrl_mask_all(l) == 255

\* ctrl_on with the ON bits of the first channel only.
ctrl_on_first(l) == KTD202X_CHANNEL_CTRL_ON(Channels(l)[1])

\* ctrl_mask, ctrl_on and ctrl_pwm1 of lines 303-306 and 351-357.
ctrl_mask(l) ==
  OrSeq([k \in 1..num_colors(l) |-> KTD202X_CHANNEL_CTRL_MASK(Channels(l)[k])])
ctrl_on(l) ==
  OrSeq([k \in 1..num_colors(l) |-> KTD202X_CHANNEL_CTRL_ON(Channels(l)[k])])
ctrl_pwm1(l) ==
  OrSeq([k \in 1..num_colors(l) |-> KTD202X_CHANNEL_CTRL_PWM1(Channels(l)[k])])

(***************************************************************************)
(* ktd202x_blink_single_set / ktd202x_blink_mc_set (271-367) and            *)
(* ktd202x_blink_set (230-269).                                             *)
(***************************************************************************)
\* blink_call_off without the never-on case: on to ktd202x_blink_set.
blink_call_off_skipped(p, r) ==
  /\ req' = [req EXCEPT ![p] = r]
  /\ Goto(p, "bl_lock")
  /\ UNCHANGED brightness

\* Line 299-300: lcdev->brightness = LED_OFF, then brightness_*_set.
blink_call_off(p, r) ==
  /\ brightness' = [brightness EXCEPT ![r.led] = LED_OFF]
  /\ req' = [req EXCEPT ![p] = [r EXCEPT !.value = LED_OFF, !.ra = "blink_off"]]
  /\ Goto(p, "bs_lock")

\* Lines 284-307: the defaults, the implicit brightness-set of a LED that is
\* off, the never-on case; all of it without the mutex.
blink_set_begin(p) ==
  /\ pc[p] = "bl_entry"
  /\ LET d == DefaultDelays(req[p].don, req[p].doff)
         r == [req[p] EXCEPT !.don = d[1], !.doff = d[2]]
     IN  IF brightness[r.led] = 0
         THEN /\ brightness' = [brightness EXCEPT ![r.led] = LED_FULL]
              /\ req' = [req EXCEPT ![p] =
                           [r EXCEPT !.value = LED_FULL, !.ra = "blink_full"]]
              /\ Goto(p, "bs_lock")
         ELSE IF r.don = 0
         THEN blink_call_off(p, r)
         ELSE /\ req' = [req EXCEPT ![p] = r]
              /\ Goto(p, "bl_lock")
              /\ UNCHANGED brightness
  /\ UNCHANGED <<regs, enabled, supply, intensity, subled, mutex, seg, fail,
                 faultsLeft, nreq, qz, ops, last, probe>>

\* Lines 293-307 after the implicit brightness-set returned.
blink_set_resume(p) ==
  /\ pc[p] = "bl_never_on"
  /\ IF req[p].ret # 0
     THEN Goto(p, "done") /\ UNCHANGED <<brightness, req>>
     ELSE IF req[p].don = 0
     THEN blink_call_off(p, req[p])
     ELSE Goto(p, "bl_lock") /\ UNCHANGED <<brightness, req>>
  /\ UNCHANGED <<regs, enabled, supply, intensity, subled, mutex, seg, fail,
                 faultsLeft, nreq, qz, ops, last, probe>>

\* mutex_lock of lines 308 and 359.
blink_set_lock(p) ==
  /\ pc[p] = "bl_lock"
  /\ mutex_lock(p)
  /\ Goto(p, "bl_set")
  /\ UNCHANGED <<regs, enabled, supply, brightness, intensity, subled, req,
                 seg, fail, faultsLeft, nreq, qz, ops, last, probe>>

\* ktd202x_blink_set up to its first bus access: the steady-on update of
\* lines 238-244, or the quantization and the flash-period write (246-260).
blink_set_period(p) ==
  /\ pc[p] = "bl_set"
  /\ IF req[p].doff = 0
     THEN LET mask == ctrl_mask(req[p].led)
              val == ctrl_on(req[p].led)
              writes == UpdateWrites(KTD202X_REG_CHANNEL_CTRL, mask, val)
          IN  \E ok \in (IF writes THEN Outcomes ELSE {TRUE}) :
                /\ Faulted(p, ok, "blink_ctrl")
                /\ regs' = regmap_update_bits(KTD202X_REG_CHANNEL_CTRL, mask,
                                              val, ok)
                /\ seg' = IF writes THEN Touched(p) ELSE seg
                /\ req' = [req EXCEPT ![p].ret = IF ok THEN 0 ELSE -5]
                /\ Goto(p, "bl_unlock")
     ELSE \E bits \in LongBits, ok \in Outcomes :
            LET q == ktd202x_blink_quantize(req[p].don, req[p].doff, bits)
            IN  /\ Faulted(p, ok, "flash_period")
                /\ regs' = regmap_write(KTD202X_REG_FLASH_PERIOD, q.num_steps, ok)
                /\ seg' = Touched(p)
                /\ req' = [req EXCEPT ![p].don = q.delay_on,
                                      ![p].doff = q.delay_off,
                                      ![p].steps = q.num_steps,
                                      ![p].on = q.on,
                                      ![p].ret = IF ok THEN 0 ELSE -5]
                /\ Goto(p, IF ok THEN "bl_pwm" ELSE "bl_unlock")
  /\ UNCHANGED <<enabled, supply, brightness, intensity, subled, mutex, nreq,
                 qz, last, probe>>

\* The PWM1-timer write (lines 261-263).
blink_set_pwm(p) ==
  /\ pc[p] = "bl_pwm"
  /\ \E ok \in Outcomes :
       /\ Faulted(p, ok, "pwm1")
       /\ regs' = regmap_write(KTD202X_REG_PWM1_TIMER, req[p].on, ok)
       /\ req' = [req EXCEPT ![p].ret = IF ok THEN 0 ELSE -5]
       /\ Goto(p, IF ok THEN "bl_ctrl" ELSE "bl_unlock")
  /\ seg' = Touched(p)
  /\ UNCHANGED <<enabled, supply, brightness, intensity, subled, mutex, nreq,
                 qz, last, probe>>

\* The control update to PWM pattern 1 (lines 265-268).
blink_set_ctrl(p) ==
  /\ pc[p] = "bl_ctrl"
  /\ LET mask == ctrl_mask(req[p].led)
         val == ctrl_pwm1(req[p].led)
         writes == UpdateWrites(KTD202X_REG_CHANNEL_CTRL, mask, val)
     IN  \E ok \in (IF writes THEN Outcomes ELSE {TRUE}) :
           /\ Faulted(p, ok, "blink_ctrl")
           /\ regs' = regmap_update_bits(KTD202X_REG_CHANNEL_CTRL, mask, val, ok)
           /\ seg' = IF writes THEN Touched(p) ELSE seg
           /\ req' = [req EXCEPT ![p].ret = IF ok THEN 0 ELSE -5]
  /\ Goto(p, "bl_unlock")
  /\ UNCHANGED <<enabled, supply, brightness, intensity, subled, mutex, nreq,
                 qz, last, probe>>

\* mutex_unlock and return ret (lines 313-315, 364-366).
blink_set_leave(p) ==
  /\ pc[p] = "bl_unlock"
  /\ mutex_unlock(p)
  /\ Goto(p, "done")
  /\ UNCHANGED <<regs, enabled, supply, brightness, intensity, subled, req,
                 seg, fail, faultsLeft, nreq, qz, ops, last, probe>>

\* The caller has the request's result; the context is free for the next.
request_return(p) ==
  /\ pc[p] = "done"
  /\ Goto(p, "idle")
  /\ req' = [req EXCEPT ![p] = NoReq]
  /\ seg' = [seg EXCEPT ![p] = "none"]
  /\ fail' = [fail EXCEPT ![p] = "none"]
  /\ ops' = [ops EXCEPT ![p] = {}]
  /\ last' = IF last.track /\ req[p].op = "brightness" /\ fail[p] = "none"
             THEN [track |-> TRUE, op |-> req[p].op, led |-> req[p].led,
                   value |-> req[p].value, ok |-> TRUE,
                   intensity |-> intensity, regs |-> regs,
                   enabled |-> enabled, supply |-> supply]
             ELSE [NoLast EXCEPT !.track = last.track]
  /\ UNCHANGED <<regs, enabled, supply, brightness, intensity, subled, mutex,
                 faultsLeft, nreq, qz, probe>>

\* The framework's entry points.
Issue(p) ==
  \/ led_set_brightness(p)
  \/ multi_intensity_store(p)
  \/ led_blink_set(p)

\* The steps of ktd202x_brightness_*_set and ktd202x_brightness_set.
RunBrightness(p) ==
  \/ brightness_set_enter(p)
  \/ chip_enable_regulator(p)
  \/ ktd202x_chip_init(p)
  \/ chip_enable_rollback(p)
  \/ brightness_set_iout(p)
  \/ brightness_set_ctrl(p)
  \/ brightness_set_idle_check(p)
  \/ ktd202x_chip_disable(p)
  \/ brightness_set_leave(p)

\* The steps of ktd202x_blink_*_set and ktd202x_blink_set.
RunBlink(p) ==
  \/ blink_set_begin(p)
  \/ blink_set_resume(p)
  \/ blink_set_lock(p)
  \/ blink_set_period(p)
  \/ blink_set_pwm(p)
  \/ blink_set_ctrl(p)
  \/ blink_set_leave(p)

\* The driver's steps.
Run(p) ==
  \/ RunBrightness(p)
  \/ RunBlink(p)
  \/ request_return(p)

Next ==
  \E p \in Procs :
    \/ nreq < MaxReqs /\ Issue(p)
    \/ Run(p)

\* Requests from concurrent contexts.
Spec == Init /\ [][Next]_vars

\* The steps that take chip->mutex.
Acquire(p) == brightness_set_enter(p) \/ blink_set_lock(p)

\* set_brightness and set_blink requests on the multicolor unit.
NextLive ==
  \E p \in Procs :
    \/ nreq < MaxReqs /\ led_set_brightness(p) /\ IsMc(req'[p].led)
    \/ nreq < MaxReqs /\ led_blink_set(p) /\ IsMc(req'[p].led)
    \/ Run(p)

\* Concurrent requests under a scheduler that lets every context that can
\* take a step take one, and a mutex that does not pass over a waiting
\* context for ever.
SpecLive ==
  /\ Init
  /\ [][NextLive]_vars
  /\ \A p \in Procs : WF_vars(Run(p)) /\ SF_vars(Acquire(p))

\* No other context has a request in progress.
Quiet(p) == \A q \in Procs \ {p} : pc[q] = "idle"

NextSeq ==
  \E p \in Procs :
    \/ nreq < MaxSeqReqs /\ Quiet(p) /\ Issue(p)
    \/ Run(p)

\* Requests issued one after the other, each after the one before returned.
SpecSeq == Init /\ [][NextSeq]_vars

NextShort ==
  \E p \in Procs :
    \/ nreq < MaxReqs /\ Quiet(p) /\ Issue(p)
    \/ Run(p)

\* MaxReqs requests of any kind, issued one after the other.
SpecShort == Init /\ [][NextShort]_vars

NextBright ==
  \E p \in Procs :
    \/ nreq < MaxReqs /\ led_set_brightness(p)
    \/ nreq < MaxReqs /\ multi_intensity_store(p)
    \/ RunBrightness(p)
    \/ request_return(p)

\* Concurrent contexts that issue brightness requests only.
SpecBright == Init /\ [][NextBright]_vars

\* Requests issued one after the other, with request_return recording each.
InitTwice ==
  /\ DriverInit
  /\ faultsLeft = MaxFaults
  /\ qz = QzIdle
  /\ last = [NoLast EXCEPT !.track = TRUE]

\* One request more than MaxReqs: the first requests lead to the state in
\* which a request is issued, the last one can repeat it.
NextTwice ==
  \E p \in Procs :
    \/ nreq <= MaxReqs /\ Quiet(p) /\ Issue(p)
    \/ Run(p)

SpecTwice == InitTwice /\ [][NextTwice]_vars

\* Brightness requests issued one after the other, on a bus and a supply
\* that may fail once more than MaxFaults: the wake write of a request and
\* the supply disable that rolls it back are two failures.
InitPower ==
  /\ DriverInit
  /\ faultsLeft = MaxFaults + 1
  /\ qz = QzIdle
  /\ last = NoLast

NextPower ==
  \E p \in Procs :
    \/ nreq < MaxReqs /\ Quiet(p) /\ led_set_brightness(p)
    \/ nreq < MaxReqs /\ Quiet(p) /\ multi_intensity_store(p)
    \/ RunBrightness(p)
    \/ request_return(p)

SpecPower == InitPower /\ [][NextPower]_vars

NextBlink ==
  \E p \in Procs :
    \/ nreq < MaxReqs /\ led_blink_set(p)
    \/ Run(p)

\* Concurrent contexts that issue blink requests only, on a bus and a supply
\* that never fail: every store to a brightness field is then one of
\* ktd202x_blink_*_set (lines 291, 299, 339, 347).
InitBlink == DriverInit /\ faultsLeft = 0 /\ qz = QzIdle /\ last = NoLast
SpecBlink == InitBlink /\ [][NextBlink]_vars

(***************************************************************************)
(* The quantizer on its own: one blink request on a LED that is lit, taken  *)
(* from its delays to what ktd202x_blink_*_set and ktd202x_blink_set make   *)
(* of them, over a wide set of delays and both widths of unsigned long.     *)
(***************************************************************************)
QDelays == {0, 1, 64, 100, 127, 128, 200, 255, 256, 300, 383, 384, 500, 1000,
            8000, 16000, 16384, 20000}

QInit ==
  /\ DriverInit
  /\ faultsLeft = 0
  /\ last = NoLast
  /\ \E a \in QDelays, b \in QDelays, w \in LongBits :
       qz = [QzIdle EXCEPT !.st = "in", !.on = a, !.off = b, !.bits = w]

\* st: "off" for the never-on case (line 298), "steady" for the steady-on
\* case (line 238), "pwm" when the request was quantized.  steps and duty are
\* num_steps and on, reg is what the 8-bit flash-period register receives,
\* don and doff are the delays handed back.
blink_request_quantized ==
  /\ qz.st = "in"
  /\ LET d == DefaultDelays(qz.on, qz.off)
         q == ktd202x_blink_quantize(d[1], d[2], qz.bits)
     IN  qz' = IF d[1] = 0
               THEN [qz EXCEPT !.st = "off", !.don = d[1], !.doff = d[2]]
               ELSE IF d[2] = 0
               THEN [qz EXCEPT !.st = "steady", !.don = d[1], !.doff = d[2]]
               ELSE [qz EXCEPT !.st = "pwm", !.steps = q.num_steps,
                               !.duty = q.on, !.reg = q.num_steps % 256,
                               !.don = q.delay_on, !.doff = q.delay_off]
  /\ UNCHANGED <<regs, enabled, supply, brightness, intensity, subled, mutex,
                 pc, req, seg, fail, faultsLeft, nreq, ops, last, probe>>

QNext == blink_request_quantized

SpecQ == QInit /\ [][QNext]_vars

(***************************************************************************)
(* ktd202x_probe (lines 510-568) with ktd202x_probe_dt (468-499) and        *)
(* ktd202x_add_led (369-466): the construction of the driver from the       *)
(* child nodes of its device node.  A child node is a standalone LED with   *)
(* one "reg", or an RGB unit whose own children carry a "reg" each.         *)
(***************************************************************************)
EINVAL == 22
EIO == 5

\* The context that runs ktd202x_probe, as a holder of chip->mutex.
ProbeContext == NumProcs + 1

\* "reg" values: the chip's channels and the first index beyond them.
RegValues == 0..num_leds

ChildNodes ==
  {[rgb |-> FALSE, regs |-> <<r>>] : r \in RegValues}
    \cup {[rgb |-> TRUE, regs |-> s] :
            s \in UNION {[1..n -> RegValues] : n \in 0..2}}

\* Device nodes with up to two child nodes, and one with more child nodes
\* than the chip has channels.
Configs ==
  UNION {[1..n -> ChildNodes] : n \in 0..2}
    \cup {[k \in 1..(num_leds + 1) |-> [rgb |-> FALSE, regs |-> <<0>>]]}

\* The chip as devm_kzalloc leaves it (line 515), the registers at their
\* defaults, no request yet.
ProbeStart ==
  /\ regs = ktd202x_reg_defaults
  /\ enabled = FALSE
  /\ supply = 0
  /\ brightness = [l \in LedSlots |-> 0]
  /\ intensity = [j \in McSubs |-> 0]
  /\ subled = [j \in McSubs |-> 0]
  /\ mutex = 0
  /\ pc = [p \in Procs |-> "idle"]
  /\ req = [p \in Procs |-> NoReq]
  /\ seg = [p \in Procs |-> "none"]
  /\ fail = [p \in Procs |-> "none"]
  /\ ops = [p \in Procs |-> {}]
  /\ nreq = 0
  /\ qz = QzIdle
  /\ last = NoLast

ProbeInit ==
  /\ ProbeStart
  /\ faultsLeft = MaxFaults
  /\ \E c \in Configs : probe = [st |-> "start", cfg |-> c, i |-> 0, ret |-> 0]

\* What ktd202x_probe leaves alone.
ProbeFrame ==
  UNCHANGED <<enabled, brightness, intensity, subled, pc, req, seg, fail,
              nreq, qz, ops, last>>

ProbeFaulted(ok) == faultsLeft' = IF ok THEN faultsLeft ELSE faultsLeft - 1

\* Lines 519-538: the mutex, the register map, the supply's handle.
ktd202x_probe_enter ==
  /\ probe.st = "start"
  /\ mutex' = ProbeContext
  /\ \E ok \in Outcomes :
       /\ ProbeFaulted(ok)
       /\ probe' = IF ok THEN [probe EXCEPT !.st = "enable"]
                   ELSE [probe EXCEPT !.st = "error", !.ret = -EIO]
  /\ UNCHANGED <<regs, supply>>
  /\ ProbeFrame

\* regulator_enable (lines 540-545).
probe_regulator_enable ==
  /\ probe.st = "enable"
  /\ \E ok \in Outcomes :
       /\ ProbeFaulted(ok)
       /\ supply' = IF ok THEN supply + 1 ELSE supply
       /\ probe' = IF ok THEN [probe EXCEPT !.st = "dt"]
                   ELSE [probe EXCEPT !.st = "error", !.ret = -EIO]
  /\ UNCHANGED <<regs, mutex>>
  /\ ProbeFrame

\* ktd202x_probe_dt up to its loop: the count of child nodes (481-483), then
\* the reset command, whose result is not looked at (485-488).
ktd202x_probe_dt ==
  /\ probe.st = "dt"
  /\ LET count == Len(probe.cfg)
     IN  IF count = 0 \/ count > num_leds
         THEN /\ probe' = [probe EXCEPT !.st = "error_reg", !.ret = -EINVAL]
              /\ UNCHANGED <<regs, faultsLeft>>
         ELSE \E ok \in Outcomes :
                /\ ProbeFaulted(ok)
                /\ regs' = regmap_write(KTD202X_REG_RESET_CONTROL,
                                        KTD202X_RSTR_RESET, ok)
                /\ probe' = [probe EXCEPT !.st = "add_led", !.i = 1]
  /\ UNCHANGED <<supply, mutex>>
  /\ ProbeFrame

\* The checks of ktd202x_add_led on one child node (lines 389-392, 409-414,
\* 437-441): 0, or the error it returns.
add_led_checks(child) ==
  IF child.rgb
  THEN IF Len(child.regs) = 0 \/ Len(child.regs) > num_leds THEN -EINVAL
       ELSE IF \E k \in 1..Len(child.regs) : child.regs[k] >= num_leds
       THEN -EINVAL
       ELSE 0
  ELSE IF child.regs[1] >= num_leds THEN -EINVAL ELSE 0

\* One turn of the loop of lines 491-496: ktd202x_add_led on child i, whose
\* registration with the LED class (lines 453-463) can fail as well.
ktd202x_add_led ==
  /\ probe.st = "add_led"
  /\ LET ret == add_led_checks(probe.cfg[probe.i])
     IN  IF ret # 0
         THEN /\ probe' = [probe EXCEPT !.st = "error_reg", !.ret = ret]
              /\ UNCHANGED faultsLeft
         ELSE \E ok \in Outcomes :
                /\ ProbeFaulted(ok)
                /\ probe' = IF ~ok
                            THEN [probe EXCEPT !.st = "error_reg", !.ret = -EIO]
                            ELSE IF probe.i < Len(probe.cfg)
                            THEN [probe EXCEPT !.i = @ + 1]
                            ELSE [probe EXCEPT !.st = "disable"]
  /\ UNCHANGED <<regs, supply, mutex>>
  /\ ProbeFrame

\* regulator_disable and mutex_unlock (lines 551-560).
probe_regulator_disable ==
  /\ probe.st = "disable"
  /\ \E ok \in Outcomes :
       /\ ProbeFaulted(ok)
       /\ supply' = IF ok THEN supply - 1 ELSE supply
       /\ mutex' = IF ok THEN 0 ELSE mutex
       /\ probe' = IF ok THEN [probe EXCEPT !.st = "ok", !.ret = 0]
                   ELSE [probe EXCEPT !.st = "error", !.ret = -EIO]
  /\ UNCHANGED regs
  /\ ProbeFrame

\* error_reg: regulator_disable, its result not looked at (line 563).
probe_error_reg ==
  /\ probe.st = "error_reg"
  /\ \E ok \in Outcomes :
       /\ ProbeFaulted(ok)
       /\ supply' = IF ok THEN supply - 1 ELSE supply
  /\ probe' = [probe EXCEPT !.st = "error"]
  /\ UNCHANGED <<regs, mutex>>
  /\ ProbeFrame

\* error: mutex_destroy and return ret (lines 565-567).
probe_error ==
  /\ probe.st = "error"
  /\ mutex' = 0
  /\ probe' = [probe EXCEPT !.st = "failed"]
  /\ UNCHANGED <<regs, supply, faultsLeft>>
  /\ ProbeFrame

ProbeNext ==
  \/ ktd202x_probe_enter
  \/ probe_regulator_enable
  \/ ktd202x_probe_dt
  \/ ktd202x_add_led
  \/ probe_regulator_disable
  \/ probe_error_reg
  \/ probe_error

\* The construction of the driver, over the device nodes of Configs.
SpecProbe == ProbeInit /\ [][ProbeNext]_vars

\* The driver from its construction on: ktd202x_probe on the device node of
\* DriverConfig, then, if it succeeded, brightness requests one after the
\* other; the bus and the supply may fail once more than MaxFaults.
InitLife ==
  /\ ProbeStart
  /\ faultsLeft = MaxFaults + 1
  /\ probe = [st |-> "start", cfg |-> DriverConfig, i |-> 0, ret |-> 0]

NextLife ==
  \/ ProbeNext
  \/ NextPower

SpecLife == InitLife /\ [][NextLife]_vars

(***************************************************************************)
(* The claims.                                                              *)
(***************************************************************************)
\* The registers a request writes: IOUT, channel control, flash period, PWM1.
RequestRegs ==
  {KTD202X_REG_FLASH_PERIOD, KTD202X_REG_PWM1_TIMER, KTD202X_REG_CHANNEL_CTRL}
    \cup {KTD202X_REG_LED_IOUT(x) : x \in 0..(KTD202X_MAX_LEDS - 1)}

\* C1: every step that changes an IOUT, channel-control, flash-period or
\* PWM1-timer register is taken while the chip's power state is enabled.
C1_WritesOnlyWhileEnabled ==
  [][(\E r \in RequestRegs : regs'[r] # regs[r]) => enabled]_vars

\* C2: a set_blink request, its implicit brightness-set included, is one
\* critical section: no other request's bus write or power transition falls
\* between two of its own.
C2_BlinkOneCriticalSection ==
  \A p \in Procs : req[p].op = "blink" => seg[p] # "interleaved"

\* C3: the bus writes and power transitions of a set_brightness call are
\* contiguous in the bus order: no other request's write falls between two
\* of them, so of two concurrent calls one's writes all precede the other's.
C3_BrightnessWritesContiguous ==
  \A p \in Procs : req[p].op = "brightness" => seg[p] # "interleaved"

\* C3 witness: two set_brightness calls on different units are in progress,
\* both have written, and the first one's writes all came before the second's.
C3_TwoCallsWrote ==
  \E p \in Procs, q \in Procs :
    /\ p # q
    /\ req[p].op = "brightness" /\ req[q].op = "brightness"
    /\ req[p].led # req[q].led
    /\ req[p].value # 0 /\ req[q].value # 0
    /\ seg[p] = "broken" /\ seg[q] = "open"
    /\ pc[p] = "done" /\ pc[q] = "bs_ctrl"

\* C4: the disable steps at the end of a brightness change (the sleep write,
\* the supply disable with state := disabled) are never taken while a LED of
\* the chip has a brightness above 0.
C4_NoDisableWhileLit ==
  [][\A p \in Procs :
       (pc[p] \in {"dis_sleep", "dis_reg"} /\ pc'[p] # pc[p])
         => ~ktd202x_chip_in_use]_vars

\* C5: every LED's brightness is within 0..192 and every IOUT register holds
\* a value within 0..191.
C5_BrightnessInRange ==
  /\ \A l \in LedSlots : brightness[l] \in 0..MaxBrightness
  /\ \A x \in 0..(num_leds - 1) :
       regs[KTD202X_REG_LED_IOUT(x)] \in 0..(MaxBrightness - 1)

Clamp(x, lo, hi) == IF x < lo THEN lo ELSE IF x > hi THEN hi ELSE x
\* n/d rounded to the nearest integer, halves upwards.
RoundDiv(n, d) == (2 * n + d) \div (2 * d)
\* The request's delays after the 1 Hz default.
QOn == IF qz.on = 0 /\ qz.off = 0 THEN 500 ELSE qz.on
QOff == IF qz.on = 0 /\ qz.off = 0 THEN 500 ELSE qz.off

\* What the flash-period register, the PWM1 timer and the caller receive
\* when the step count is steps.
QuantizedWith(steps) ==
  LET duty == (QOn * 256) \div (QOn + QOff)
      total == steps * 128 + 256
      on2 == (total * duty) \div 256
  IN  /\ qz.reg = steps
      /\ qz.duty = duty
      /\ qz.don = on2
      /\ qz.doff = total - on2

\* C6 as stated: a quantized request writes
\* clamp(round((on+off-256)/128)+1, 1, 126) to the flash-period register,
\* floor(on*256/(on+off)) to the PWM1 timer, and hands back
\* on' = floor(total*duty/256), off' = total - on', total = steps*128+256.
C6_QuantizerAsStated ==
  qz.st = "pwm"
    => QuantizedWith(Clamp(RoundDiv(QOn + QOff - 256, 128) + 1, 1, 126))

\* C6 amended: a request is quantized exactly when on > 0 and off > 0 after
\* the default, and when on+off >= 256 the flash-period register receives
\* min(floor((on+off-256)/128)+1, 126), the PWM1 timer floor(on*256/(on+off)),
\* and the caller on' = floor(total*duty/256), off' = total - on'.
C6_QuantizerFloor ==
  /\ qz.st \in {"off", "steady", "pwm"}
       => (qz.st = "pwm" <=> (QOn > 0 /\ QOff > 0))
  /\ (qz.st = "pwm" /\ QOn + QOff >= 256)
       => /\ QuantizedWith(Min(126, (QOn + QOff - 256) \div 128 + 1))
          /\ qz.steps = qz.reg

\* C6 witness: on = off = 0 was quantized as 500/500: 6 steps, duty 128,
\* 512 ms on and 512 ms off handed back.
C6_DefaultQuantized ==
  /\ qz.st = "pwm" /\ qz.on = 0 /\ qz.off = 0
  /\ qz.reg = 6 /\ qz.duty = 128 /\ qz.don = 512 /\ qz.doff = 512

\* C7: for on >= 1 and off >= 1 the step count written to the flash-period
\* register is in [1,126], on'+off' >= 256 and on'+off'-256 is a multiple of
\* 128.
C7_StepsInRange ==
  (qz.st = "pwm" /\ qz.on >= 1 /\ qz.off >= 1)
    => /\ qz.steps \in 1..126
       /\ qz.reg \in 1..126
       /\ qz.don + qz.doff >= 256
       /\ (qz.don + qz.doff - 256) % 128 = 0

\* The channels a brightness-set writes, with the brightness of each.
ReqChannel(p, k) == Channels(req[p].led)[k]
ReqBrightness(p, k) == IF IsMc(req[p].led) THEN subled[k] ELSE req[p].value
\* Channel x's IOUT register and control field are those of brightness b.
Encodes(x, b) ==
  /\ regs[KTD202X_REG_LED_IOUT(x)] = IF b = 0 THEN 0 ELSE b - 1
  /\ (regs[KTD202X_REG_CHANNEL_CTRL] \div Pow2(2 * x)) % 4
       = IF b = 0 THEN 0 ELSE 1

\* C8: when the control update of a channel is due its IOUT register already
\* holds b-1 (0 for b = 0), and when the loop of a brightness-set has ended
\* without failure every channel it set has IOUT = b-1 and control field ON
\* for b > 0, IOUT = 0 and control field OFF for b = 0.
C8_BrightnessEncoding ==
  \A p \in Procs :
    /\ pc[p] = "bs_ctrl"
         => LET b == ReqBrightness(p, req[p].i)
            IN  regs[KTD202X_REG_LED_IOUT(ReqChannel(p, req[p].i))]
                  = IF b = 0 THEN 0 ELSE b - 1
    /\ pc[p] \in {"bs_post", "dis_sleep", "dis_reg"}
         => \A k \in 1..num_colors(req[p].led) :
              Encodes(ReqChannel(p, k), ReqBrightness(p, k))

\* C8 witness: a set_brightness of 192 on the multicolor unit has written
\* both channels: channel 0, at 192, has IOUT 191 and is ON; channel 1, at 0,
\* has IOUT 0 and is OFF.
C8_BothEncodingsWritten ==
  \E p \in Procs :
    /\ pc[p] = "bs_post" /\ req[p].op = "brightness"
    /\ IsMc(req[p].led) /\ req[p].value = 192
    /\ subled = <<192, 0>>
    /\ regs[KTD202X_REG_LED_IOUT(0)] = 191 /\ regs[KTD202X_REG_LED_IOUT(1)] = 0
    /\ regs[KTD202X_REG_CHANNEL_CTRL] = 1

\* C9: a request in which the supply enable, the wake write, an IOUT write
\* or a control update of a brightness-set failed returns an error.
C9_BrightnessFailurePropagated ==
  \A p \in Procs :
    (pc[p] = "done" /\ fail[p] \in {"supply_enable", "wake", "iout", "ctrl"})
      => req[p].ret # 0

Repeat(p) ==
  /\ last.track /\ last.op = "brightness" /\ last.ok
  /\ req[p].op = "brightness"
  /\ req[p].led = last.led /\ req[p].value = last.value
  /\ intensity = last.intensity

\* C11: a set_brightness that repeats the one before it and has no failure
\* leaves the registers, the power state and the supply as the first left
\* them, and calls neither regulator_enable nor regulator_disable.
C11_SetBrightnessIdempotent ==
  \A p \in Procs :
    (pc[p] = "done" /\ Repeat(p) /\ fail[p] = "none")
      => /\ regs = last.regs
         /\ enabled = last.enabled
         /\ supply = last.supply
         /\ ops[p] \cap {"supply_enable", "supply_disable"} = {}

\* C11 witness: set_brightness(standalone LED, 192) has returned a second
\* time on the enabled chip, having written IOUT and the control field again.
C11_SecondCallReturned ==
  \E p \in Procs :
    /\ pc[p] = "done" /\ Repeat(p) /\ fail[p] = "none"
    /\ ~IsMc(req[p].led) /\ req[p].value = MaxBrightness
    /\ ops[p] = {"iout", "ctrl"}
    /\ enabled /\ regs[KTD202X_REG_LED_IOUT(2)] = MaxBrightness - 1

\* A set_blink request that asks for on_ms > 0 and off_ms = 0.
SteadyOn(p) == req[p].op = "blink" /\ req[p].don > 0 /\ req[p].doff = 0

\* The control field of every channel of LED l is f(channel).
FieldsAre(l, f(_)) ==
  \A k \in 1..num_colors(l) :
    CtrlField(regs[KTD202X_REG_CHANNEL_CTRL], Channels(l)[k]) = f(Channels(l)[k])

\* C12: a set_blink request with on_ms > 0 and off_ms = 0 writes neither the
\* flash-period nor the PWM1-timer register, leaves on_ms and off_ms as they
\* were handed in, and, when its control update succeeded, has set the control
\* fields of all its channels to ON by the time it releases the mutex.
C12_SteadyOnPath ==
  /\ [](\A p \in Procs :
          SteadyOn(p) =>
            /\ ops[p] \cap {"flash_period", "pwm1"} = {}
            /\ (pc[p] = "bl_unlock" /\ req[p].ret = 0)
                 => FieldsAre(req[p].led, KTD202X_CHANNEL_CTRL_ON))
  /\ [][\A p \in Procs :
          (SteadyOn(p) /\ pc[p] # "done")
            => (SteadyOn(p)' /\ req'[p].don = req[p].don)]_vars

\* C12 witness: a steady-on request on the multicolor unit, which was
\* blinking, is about to release the mutex with both fields ON.
C12_SteadyOnDone ==
  \E p \in Procs :
    /\ SteadyOn(p) /\ pc[p] = "bl_unlock" /\ req[p].ret = 0
    /\ IsMc(req[p].led) /\ req[p].don = 500
    /\ ops[p] = {"blink_ctrl"} /\ seg[p] = "open"
    /\ regs[KTD202X_REG_FLASH_PERIOD] # ktd202x_reg_defaults[KTD202X_REG_FLASH_PERIOD]
    /\ FieldsAre(req[p].led, KTD202X_CHANNEL_CTRL_ON)

\* A set_blink request whose on-duration is 0 after defaulting.
NeverOn(p) == req[p].op = "blink" /\ req[p].don = 0 /\ req[p].doff > 0

\* C13: a set_blink request with on_ms = 0 and off_ms > 0 never writes the
\* flash-period or PWM1-timer register and never makes the control update of
\* ktd202x_blink_set; when none of its operations failed it returns with the
\* LED's brightness 0, and its channels' IOUT 0 and control fields OFF.
C13_NeverOnForcesOff ==
  \A p \in Procs :
    NeverOn(p) =>
      /\ ops[p] \cap {"flash_period", "pwm1", "blink_ctrl"} = {}
      /\ (pc[p] = "done" /\ fail[p] = "none")
           => /\ brightness[req[p].led] = 0
              /\ FieldsAre(req[p].led, LAMBDA x : KTD202X_CHANNEL_CTRL_OFF)
              /\ \A k \in 1..num_colors(req[p].led) :
                   regs[KTD202X_REG_LED_IOUT(Channels(req[p].led)[k])] = 0

\* C13 witness: a never-on request on the multicolor unit, the only LED that
\* was lit, has returned: the unit went off and the chip with it.
C13_NeverOnReturned ==
  \E p \in Procs :
    /\ NeverOn(p) /\ pc[p] = "done" /\ fail[p] = "none"
    /\ IsMc(req[p].led) /\ req[p].ra = "blink_off"
    /\ ops[p] = {"iout", "ctrl", "sleep", "supply_disable"}
    /\ ~enabled

\* Some "reg" of the device node is not below the chip's channel count.
InvalidReg(cfg) ==
  \E i \in 1..Len(cfg) : \E k \in 1..Len(cfg[i].regs) : cfg[i].regs[k] >= num_leds

\* C14 as stated: when the device node holds a register index at or beyond
\* the chip's channel count, construction does not succeed, and when it has
\* failed no device register differs from its state before construction.
C14_InvalidRegNothingWritten ==
  InvalidReg(probe.cfg) =>
    /\ probe.st # "ok"
    /\ probe.st = "failed" => (probe.ret # 0 /\ regs = ktd202x_reg_defaults)

\* C15 as stated: once an operation of a request has failed, no later step
\* of that request changes an IOUT, channel-control, flash-period or
\* PWM1-timer register.
C15_NoWriteAfterFailure ==
  [][\A p \in Procs :
       (fail[p] # "none" /\ pc'[p] # pc[p])
         => \A r \in RequestRegs : regs'[r] = regs[r]]_vars

\* Context p takes a step, and the operation of that step fails.
Step(p) == pc'[p] # pc[p]
FailedStep(p) == Step(p) /\ faultsLeft' < faultsLeft

\* ktd202x_chip_enable where the claim and the code agree: already enabled,
\* it calls neither the supply nor the bus; a failed supply enable leaves the
\* chip disabled, no register written, and ends the request; a failed wake
\* write starts the rollback.
EnsureEnabledCommon(p) ==
  /\ (pc[p] = "bs_lock" /\ Step(p) /\ enabled)
       => /\ pc'[p] = "bs_iout"
          /\ UNCHANGED <<regs, supply, enabled, faultsLeft>>
          /\ ops'[p] = ops[p]
  /\ (pc[p] = "en_reg" /\ FailedStep(p))
       => /\ pc'[p] = "bs_unlock" /\ fail'[p] = "supply_enable"
          /\ ~enabled' /\ supply' = 0 /\ regs' = regs
  /\ (pc[p] = "en_init" /\ FailedStep(p))
       => /\ pc'[p] = "rb_sleep" /\ fail'[p] = "wake"
          /\ regs' = regs

\* C16 as stated: the rollback after a failed wake write ends with the chip
\* disabled and the supply released.
C16_RollbackAlwaysDisables ==
  [][\A p \in Procs :
       /\ EnsureEnabledCommon(p)
       /\ (pc[p] = "rb_reg" /\ Step(p))
            => (pc'[p] = "bs_unlock" /\ ~enabled' /\ supply' = 0)]_vars

\* C16 amended: the rollback ends with the chip disabled and the supply
\* released when its supply disable succeeds; when that fails too, the chip
\* stays enabled and the supply stays held.  Either way the request ends.
C16_RollbackUnlessDisableFails ==
  [][\A p \in Procs :
       /\ EnsureEnabledCommon(p)
       /\ (pc[p] = "rb_reg" /\ Step(p))
            => /\ pc'[p] = "bs_unlock"
               /\ IF FailedStep(p) THEN enabled' /\ supply' = 1
                  ELSE ~enabled' /\ supply' = 0]_vars

\* C16 witness: a request whose wake write failed has rolled back and is
\* about to return, the chip disabled and the supply released.
C16_RolledBack ==
  \E p \in Procs :
    /\ pc[p] = "bs_unlock" /\ fail[p] = "wake"
    /\ ops[p] = {"supply_enable", "wake", "sleep", "supply_disable"}
    /\ ~enabled /\ supply = 0
    /\ regs[KTD202X_REG_RESET_CONTROL] = KTD202X_ENABLE_CTRL_SLEEP

\* The channels of LED l, as a set.
ChannelSet(l) == {Channels(l)[k] : k \in 1..num_colors(l)}

\* C17: a step of a request changes neither the control field nor the IOUT
\* register of a channel that is not one of the request's LED; and the
\* control update that ends a PWM blink request on the multicolor unit leaves
\* the fields of all its channels at PWM pattern 1, in that one step.
C17_OtherChannelsUntouched ==
  [][\A p \in Procs :
       Step(p) =>
         /\ \A x \in (0..(KTD202X_MAX_LEDS - 1)) \ ChannelSet(req[p].led) :
              /\ CtrlField(regs'[KTD202X_REG_CHANNEL_CTRL], x)
                   = CtrlField(regs[KTD202X_REG_CHANNEL_CTRL], x)
              /\ regs'[KTD202X_REG_LED_IOUT(x)] = regs[KTD202X_REG_LED_IOUT(x)]
         /\ (pc[p] = "bl_ctrl" /\ ~FailedStep(p))
              => FieldsAre(req[p].led, KTD202X_CHANNEL_CTRL_PWM1)']_vars

\* C17 witness: a PWM blink request on the multicolor unit has made its
\* control update while the standalone LED is lit: both member fields are at
\* PWM pattern 1, the standalone LED's field is ON and its IOUT as written.
C17_GroupBlinksBesideLitLed ==
  \E p \in Procs :
    /\ pc[p] = "bl_unlock" /\ req[p].op = "blink" /\ IsMc(req[p].led)
    /\ req[p].ret = 0 /\ {"flash_period", "pwm1", "blink_ctrl"} \subseteq ops[p]
    /\ FieldsAre(0, KTD202X_CHANNEL_CTRL_PWM1)
    /\ FieldsAre(1, KTD202X_CHANNEL_CTRL_ON)
    /\ regs[KTD202X_REG_LED_IOUT(2)] = MaxBrightness - 1

\* C18: the driver never holds more than one enable on the supply and never
\* fewer than none, and once ktd202x_probe has succeeded the chip is enabled
\* exactly when the driver holds one: also after a supply enable, a wake write
\* or a supply disable that failed.
C18_SupplyBalance ==
  /\ supply \in {0, 1}
  /\ probe.st = "ok" => (enabled <=> supply = 1)

\* C18 witness: the last LED went off and the supply disable failed; the
\* request is about to return with the chip still enabled, the supply held.
C18_DisableFailedStillEnabled ==
  \E p \in Procs :
    /\ probe.st = "ok"
    /\ pc[p] = "bs_unlock" /\ fail[p] = "supply_disable"
    /\ ~ktd202x_chip_in_use
    /\ enabled /\ supply = 1

\* Where a request is between its mutex_lock and its mutex_unlock.
LockedPcs ==
  {"en_reg", "en_init", "rb_sleep", "rb_reg", "bs_iout", "bs_ctrl", "bs_post",
   "dis_sleep", "dis_reg", "bs_unlock", "bl_set", "bl_pwm", "bl_ctrl",
   "bl_unlock"}

\* C19: a context holds the chip mutex exactly while its request is between
\* a mutex_lock and the mutex_unlock that follows, so a request is never at a
\* mutex_lock with the mutex in its hands and never returns with it; and every
\* request that was issued returns.
C19_RequestsComplete ==
  /\ [](\A p \in Procs : mutex = p <=> pc[p] \in LockedPcs)
  /\ \A p \in Procs : (pc[p] # "idle") ~> (pc[p] = "done")

\* C19 witness: a request that met a failure holds the mutex while another
\* context waits at its mutex_lock.
C19_WaitsBehindFailedRequest ==
  \E p, q \in Procs :
    /\ p # q
    /\ mutex = p /\ fail[p] # "none" /\ pc[p] = "bs_unlock"
    /\ pc[q] \in {"bs_lock", "bl_lock"}

\* The brightness last written for channel k of LED l: the component of a
\* multicolor unit, the brightness of a standalone LED.
ChannelBrightness(l, k) == IF IsMc(l) THEN subled[k] ELSE brightness[l]

\* No request is in progress, and no operation has failed so far.
QuiescentAllSucceeded ==
  /\ \A p \in Procs : pc[p] = "idle"
  /\ faultsLeft = MaxFaults

\* C20 as stated: in a quiescent state reached by requests that all
\* succeeded, a channel whose last-written brightness is 0 has the control
\* field OFF.
C20_DarkChannelsOff ==
  QuiescentAllSucceeded =>
    \A l \in Registered : \A k \in 1..num_colors(l) :
      ChannelBrightness(l, k) = 0
        => CtrlField(regs[KTD202X_REG_CHANNEL_CTRL], Channels(l)[k])
             = KTD202X_CHANNEL_CTRL_OFF

=============================================================================
